---- MODULE Spec2Model ----
(***************************************************************************)
(* Model of the serum-iq decoding layer (src/src/serum.rs):                *)
(*   remove_dex_account_padding, get_keys_for_market, parse_event_queue    *)
(*   and load_event_queue.                                                 *)
(*                                                                         *)
(* Account buffers are byte sequences, payloads are sequences of 64-bit    *)
(* little-endian words.  Word values used by the model stay below 2^31     *)
(* (the upper four bytes of every word are zero).  A call returns one of   *)
(*   [tag |-> "Ok", val |-> v], [tag |-> "Err", err |-> e],                *)
(*   [tag |-> "Panic", msg |-> m]                                          *)
(* the last one standing for a Rust panic (slice index out of range,       *)
(* assert_eq! failure).                                                    *)
(***************************************************************************)
EXTENDS Integers, Sequences, FiniteSets, TLC

VARIABLES pc, chain, market, derivable, account_data, words, market_state,
          market_keys, event_q_data, inner, event_queue, aligned, ret, log

vars == <<pc, chain, market, derivable, account_data, words, market_state,
          market_keys, event_q_data, inner, event_queue, aligned, ret, log>>

(***************************************************************************)
(* Results                                                                 *)
(***************************************************************************)
Ok(v) == [tag |-> "Ok", val |-> v]

Err(e) == [tag |-> "Err", err |-> e]

Panic(m) == [tag |-> "Panic", msg |-> m]

IsOk(r) == r.tag = "Ok"

IsErr(r) == r.tag = "Err"

IsPanic(r) == r.tag = "Panic"

None == [tag |-> "None"]

(***************************************************************************)
(* Protocol constants (serum_dex::state), as used by the source.           *)
(***************************************************************************)
\* b"serum"
ACCOUNT_HEAD_PADDING == <<115, 101, 114, 117, 109>>

\* b"padding"
ACCOUNT_TAIL_PADDING == <<112, 97, 100, 100, 105, 110, 103>>

\* size_of::<u64>()
WordBytes == 8

(***************************************************************************)
(* Little-endian reinterpretation (safe_transmute on a little-endian       *)
(* target).                                                                *)
(***************************************************************************)
RECURSIVE LeBytesN(_, _)
LeBytesN(w, n) == IF n = 0 THEN <<>> ELSE <<w % 256>> \o LeBytesN(w \div 256, n - 1)

\* transmute_one_to_bytes(&u64)
LeBytes(w) == LeBytesN(w, WordBytes)

RECURSIVE LeWord(_)
LeWord(bs) == IF bs = <<>> THEN 0 ELSE bs[1] + 256 * LeWord(Tail(bs))

\* transmute_to_bytes(&[u64])
transmute_to_bytes(ws) ==
    [k \in 1..(WordBytes * Len(ws)) |->
        LeBytes(ws[((k - 1) \div WordBytes) + 1])[((k - 1) % WordBytes) + 1]]

\* The first n whole words of a byte sequence.
BytesToWords(bs, n) ==
    [i \in 1..n |-> LeWord(SubSeq(bs, (i - 1) * WordBytes + 1, i * WordBytes))]

\* transmute_many_pedantic::<u64>(inner) followed by the source's fallback:
\*   Ok(slice)              -> Cow::Borrowed
\*   Err(Unaligned)         -> Error::copy() copies Len \div 8 whole words
\*   Err(Guard(..))         -> Error::copy() gives the error back
\* The alignment check comes first; PedanticGuard wants at least one value
\* and no extraneous bytes.
transmute_many_pedantic_or_copy(bs, isAligned) ==
    IF ~isAligned THEN Ok(BytesToWords(bs, Len(bs) \div WordBytes))
    ELSE IF Len(bs) < WordBytes THEN Err("MisalignedLength")
    ELSE IF Len(bs) % WordBytes # 0 THEN Err("MisalignedLength")
    ELSE Ok(BytesToWords(bs, Len(bs) \div WordBytes))

(***************************************************************************)
(* remove_dex_account_padding (serum.rs 105-131).  `isAligned` is whether  *)
(* the interior of the buffer happens to be 8-byte aligned: it depends on  *)
(* the allocation, so callers choose it nondeterministically.              *)
(***************************************************************************)
\* The same routine without the comparison of the head padding.
RemovePaddingNoHeadCheck(data, isAligned) ==
    IF Len(data) < Len(ACCOUNT_HEAD_PADDING)
    THEN Panic("range end index out of range for slice")
    ELSE IF Len(data) < Len(ACCOUNT_HEAD_PADDING) + Len(ACCOUNT_TAIL_PADDING)
    THEN Err("TooSmall")
    ELSE IF SubSeq(data, Len(data) - Len(ACCOUNT_TAIL_PADDING) + 1, Len(data))
                # ACCOUNT_TAIL_PADDING
    THEN Err("TailMismatch")
    ELSE transmute_many_pedantic_or_copy(
             SubSeq(data, Len(ACCOUNT_HEAD_PADDING) + 1,
                    Len(data) - Len(ACCOUNT_TAIL_PADDING)), isAligned)

remove_dex_account_padding(data, isAligned) ==
    \* line 107: the head slice is taken before the length is checked
    IF Len(data) < Len(ACCOUNT_HEAD_PADDING)
    THEN Panic("range end index out of range for slice")
    ELSE IF Len(data) < Len(ACCOUNT_HEAD_PADDING) + Len(ACCOUNT_TAIL_PADDING)
    THEN Err("TooSmall")
    ELSE IF SubSeq(data, 1, Len(ACCOUNT_HEAD_PADDING)) # ACCOUNT_HEAD_PADDING
    THEN Err("HeadMismatch")
    ELSE IF SubSeq(data, Len(data) - Len(ACCOUNT_TAIL_PADDING) + 1, Len(data))
                # ACCOUNT_TAIL_PADDING
    THEN Err("TailMismatch")
    ELSE transmute_many_pedantic_or_copy(
             SubSeq(data, Len(ACCOUNT_HEAD_PADDING) + 1,
                    Len(data) - Len(ACCOUNT_TAIL_PADDING)), isAligned)

(***************************************************************************)
(* Public keys.  A Pubkey is 32 bytes; the records keep identifiers as     *)
(* [u64; 4].  Key(k) is the 32-byte key whose first word is k.             *)
(***************************************************************************)
Key(k) == transmute_to_bytes(<<k, 0, 0, 0>>)

\* Pubkey::new(transmute_one_to_bytes(&identity(field)))
PubkeyOfWords(ws) == transmute_to_bytes(ws)

\* The program id load_event_queue is called with (serum.rs 200, main.rs 89).
DEX_PROGRAM_ID == "9xQeWvG816bUx9EPjHmaT23yvVM2ZWbrrpZb9PusVFin"

(***************************************************************************)
(* Account flags (serum_dex::state::AccountFlag): a u64 bit set.           *)
(***************************************************************************)
HasBit(x, b) == (x \div b) % 2 = 1

Initialized == 1

Market == 2

OpenOrders == 4

Disabled == 128

Permissioned == 512

CrankAuthorityRequired == 1024

\* One past the highest defined flag bit: BitFlags::from_bits rejects more.
AccountFlagLimit == 2048

\* size_of::<MarketState>() >> 3 and size_of::<MarketStateV2>() >> 3
MarketStateWords == 47

MarketStateV2Words == 183

\* Market::account_flags(&account_data): the u64 right after the head
\* padding of the RAW buffer, refused (BitFlags::from_bits) when it has a
\* bit that is no AccountFlag.  Every defined flag lies in the two low
\* bytes, so a nonzero higher byte is an undefined bit.
account_flags(data) ==
    IF Len(data) < Len(ACCOUNT_HEAD_PADDING) + WordBytes
    THEN Err("FlagMismatch")
    ELSE LET bs == SubSeq(data, Len(ACCOUNT_HEAD_PADDING) + 1,
                          Len(ACCOUNT_HEAD_PADDING) + WordBytes)
         IN  IF \E k \in 3..WordBytes : bs[k] # 0 THEN Err("FlagMismatch")
             ELSE IF LeWord(SubSeq(bs, 1, 2)) >= AccountFlagLimit
             THEN Err("FlagMismatch")
             ELSE Ok(LeWord(SubSeq(bs, 1, 2)))

\* The fields of MarketState the source reads, by word offset.
MarketStateOf(ws) ==
    [account_flags      |-> ws[1],
     own_address        |-> SubSeq(ws, 2, 5),
     vault_signer_nonce |-> ws[6],
     coin_vault         |-> SubSeq(ws, 15, 18),
     pc_vault           |-> SubSeq(ws, 21, 24),
     req_q              |-> SubSeq(ws, 28, 31),
     event_q            |-> SubSeq(ws, 32, 35),
     bids               |-> SubSeq(ws, 36, 39),
     asks               |-> SubSeq(ws, 40, 43)]

\* A check that only looks for the required bits.
CheckFlagsRequiredOnly(flags, allow_disabled) ==
    HasBit(flags, Initialized) /\ HasBit(flags, Market)

\* MarketState::check_flags(allow_disabled)
check_flags(flags, allow_disabled) ==
    LET required == Initialized + Market
    IN  \/ flags = required
        \/ allow_disabled /\ flags = required + Disabled

\* MarketStateV2::check_flags(allow_disabled)
check_flags_v2(flags, allow_disabled) ==
    LET required == Initialized + Market + Permissioned
        crank    == required + CrankAuthorityRequired
    IN  \/ flags = required
        \/ flags = crank
        \/ allow_disabled /\ flags \in {required + Disabled, crank + Disabled}

\* serum.rs 141-154: the block computing market_state.  The result carries
\* the branch taken next to the inner record.
decode_market_state(data, ws) ==
    LET af == account_flags(data)
    IN  IF IsErr(af) THEN af
        ELSE IF HasBit(af.val, Permissioned)
        THEN IF Len(ws) # MarketStateV2Words THEN Err("LayoutSizeMismatch")
             ELSE IF ~check_flags_v2(ws[1], TRUE) THEN Err("FlagMismatch")
             ELSE Ok([branch |-> "v2", state |-> MarketStateOf(ws)])
        ELSE IF Len(ws) # MarketStateWords THEN Err("LayoutSizeMismatch")
             ELSE IF ~check_flags(ws[1], TRUE) THEN Err("FlagMismatch")
             ELSE Ok([branch |-> "plain", state |-> MarketStateOf(ws)])

\* gen_vault_signer_key(nonce, market, program_id): a program-derived
\* address.  Whether the derivation lands off the curve is decided by a
\* hash; `canDerive` is that outcome.
gen_vault_signer_key(nonce, mkt, program_id, canDerive) ==
    IF canDerive THEN Ok(<<"vault_signer", nonce, mkt, program_id>>)
    ELSE Err("SignerDerivationFailed")

\* serum.rs 155-182: derivation, the assert_eq! on own_address, the keys.
derive_keys(state, mkt, program_id, canDerive) ==
    LET vsk == gen_vault_signer_key(state.vault_signer_nonce, mkt, program_id,
                                    canDerive)
    IN  IF IsErr(vsk) THEN vsk
        ELSE IF transmute_to_bytes(state.own_address) # mkt
        THEN Panic("assert_eq failed: own_address")
        ELSE Ok([market     |-> mkt,
                 req_q      |-> PubkeyOfWords(state.req_q),
                 event_q    |-> PubkeyOfWords(state.event_q),
                 bids       |-> PubkeyOfWords(state.bids),
                 asks       |-> PubkeyOfWords(state.asks),
                 coin_vault |-> PubkeyOfWords(state.coin_vault),
                 pc_vault   |-> PubkeyOfWords(state.pc_vault),
                 vault_signer_key |-> vsk.val])

(***************************************************************************)
(* parse_event_queue (serum.rs 44-57).                                     *)
(***************************************************************************)
\* size_of::<EventQueueHeader>() >> 3
HeaderWords == 4

\* size_of::<Event>() >> 3
EventWords == 11

\* EventFlag bits in the first byte of an event record.
EventFill == 1

EventOut == 2

\* The header fields: account_flags, head, count, seq_num.
EventQueueHeaderOf(ws) ==
    [account_flags |-> ws[1], head |-> ws[2], count |-> ws[3], seq_num |-> ws[4]]

\* transmute_many::<Event, SingleManyGuard>: whole records, trailing words
\* tolerated; the i-th record (1-based).
EventAt(event_words, i) ==
    SubSeq(event_words, (i - 1) * EventWords + 1, i * EventWords)

\* Event::as_view(): dispatch on the record's tag; a tag that is neither
\* Fill nor Out is an error.
as_view(e) ==
    LET flags == e[1] % 256
    IN  IF HasBit(flags, EventFill)
        THEN Ok([kind |-> "Fill", flags |-> flags, client_order_id |-> e[EventWords]])
        ELSE IF HasBit(flags, EventOut)
        THEN Ok([kind |-> "Out", flags |-> flags, client_order_id |-> e[EventWords]])
        ELSE Err("UnknownEventTag")

Min(a, b) == IF a < b THEN a ELSE b

parse_event_queue(data_words) ==
    IF Len(data_words) < HeaderWords
    THEN Panic("split_at: mid > len")
    ELSE
    LET header      == EventQueueHeaderOf(SubSeq(data_words, 1, HeaderWords))
        event_words == SubSeq(data_words, HeaderWords + 1, Len(data_words))
        n           == Len(event_words) \div EventWords
    IN  IF n < 1 THEN Err("LayoutSizeMismatch")
        ELSE IF header.head > n THEN Panic("split_at: mid > len")
        ELSE
        LET head_len == Min(n - header.head, header.count)
            views    == [i \in 1..head_len |->
                            as_view(EventAt(event_words, header.head + i))]
        IN  IF \E i \in 1..head_len : IsErr(views[i])
            THEN Err("UnknownEventTag")
            ELSE Ok([header |-> header,
                     events |-> [i \in 1..head_len |-> views[i].val]])

(***************************************************************************)
(* load_event_queue (serum.rs 36-42) with get_keys_for_market (134-183)    *)
(* inlined, one action per stage.  `chain` is the data source: the account *)
(* bytes stored under each key; a key it does not hold makes               *)
(* client.get_account_data fail.  `log` records the stages that ran.       *)
(***************************************************************************)
\* What load_event_queue returns on success: Ok(()).
Unit == [unit |-> TRUE]

Stages == <<"fetch_market", "strip_market", "dispatch", "derive",
            "fetch_event_q", "strip_event_q", "read">>

\* client.get_account_data(key)
get_account_data(key) ==
    IF key \in DOMAIN chain THEN Ok(chain[key]) ELSE Err("DataSourceError")

\* serum.rs 139
FetchMarket ==
    /\ pc = "start"
    /\ log' = Append(log, "fetch_market")
    /\ LET r == get_account_data(market)
       IN  IF IsOk(r)
           THEN account_data' = r.val /\ pc' = "strip_market" /\ UNCHANGED ret
           ELSE ret' = r /\ pc' = "done" /\ UNCHANGED account_data
    /\ UNCHANGED <<chain, market, derivable, words, market_state, market_keys,
                   event_q_data, inner, event_queue, aligned>>

\* serum.rs 140
StripMarket ==
    /\ pc = "strip_market"
    /\ log' = Append(log, "strip_market")
    /\ \E a \in BOOLEAN :
         /\ aligned' = a
         /\ LET r == remove_dex_account_padding(account_data, a)
            IN  IF IsOk(r)
                THEN words' = r.val /\ pc' = "dispatch" /\ UNCHANGED ret
                ELSE ret' = r /\ pc' = "done" /\ UNCHANGED words
    /\ UNCHANGED <<chain, market, derivable, account_data, market_state,
                   market_keys, event_q_data, inner, event_queue>>

\* serum.rs 141-154
DispatchLayout ==
    /\ pc = "dispatch"
    /\ log' = Append(log, "dispatch")
    /\ LET r == decode_market_state(account_data, words)
       IN  IF IsOk(r)
           THEN market_state' = r.val /\ pc' = "derive" /\ UNCHANGED ret
           ELSE ret' = r /\ pc' = "done" /\ UNCHANGED market_state
    /\ UNCHANGED <<chain, market, derivable, account_data, words, market_keys,
                   event_q_data, inner, event_queue, aligned>>

\* serum.rs 155-182
DeriveKeys ==
    /\ pc = "derive"
    /\ log' = Append(log, "derive")
    /\ LET r == derive_keys(market_state.state, market, DEX_PROGRAM_ID, derivable)
       IN  IF IsOk(r)
           THEN market_keys' = r.val /\ pc' = "fetch_event_q" /\ UNCHANGED ret
           ELSE ret' = r /\ pc' = "done" /\ UNCHANGED market_keys
    /\ UNCHANGED <<chain, market, derivable, account_data, words, market_state,
                   event_q_data, inner, event_queue, aligned>>

\* serum.rs 38
FetchEventQ ==
    /\ pc = "fetch_event_q"
    /\ log' = Append(log, "fetch_event_q")
    /\ LET r == get_account_data(market_keys.event_q)
       IN  IF IsOk(r)
           THEN event_q_data' = r.val /\ pc' = "strip_event_q" /\ UNCHANGED ret
           ELSE ret' = r /\ pc' = "done" /\ UNCHANGED event_q_data
    /\ UNCHANGED <<chain, market, derivable, account_data, words, market_state,
                   market_keys, inner, event_queue, aligned>>

\* serum.rs 39
StripEventQ ==
    /\ pc = "strip_event_q"
    /\ log' = Append(log, "strip_event_q")
    /\ \E a \in BOOLEAN :
         /\ aligned' = a
         /\ LET r == remove_dex_account_padding(event_q_data, a)
            IN  IF IsOk(r)
                THEN inner' = r.val /\ pc' = "read" /\ UNCHANGED ret
                ELSE ret' = r /\ pc' = "done" /\ UNCHANGED inner
    /\ UNCHANGED <<chain, market, derivable, account_data, words, market_state,
                   market_keys, event_q_data, event_queue>>

\* serum.rs 40
ParseEventQ ==
    /\ pc = "read"
    /\ log' = Append(log, "read")
    /\ LET r == parse_event_queue(inner)
       IN  IF IsOk(r)
           THEN event_queue' = r.val /\ pc' = "return" /\ UNCHANGED ret
           ELSE ret' = r /\ pc' = "done" /\ UNCHANGED event_queue
    /\ UNCHANGED <<chain, market, derivable, account_data, words, market_state,
                   market_keys, event_q_data, inner, aligned>>

\* serum.rs 41: Ok(())
Return ==
    /\ pc = "return"
    /\ ret' = Ok(Unit)
    /\ pc' = "done"
    /\ UNCHANGED <<chain, market, derivable, account_data, words, market_state,
                   market_keys, event_q_data, inner, event_queue, aligned, log>>

Next ==
    \/ FetchMarket
    \/ StripMarket
    \/ DispatchLayout
    \/ DeriveKeys
    \/ FetchEventQ
    \/ StripEventQ
    \/ ParseEventQ
    \/ Return

(***************************************************************************)
(* Inputs.                                                                 *)
(***************************************************************************)
\* Longest interior word sequence of the padding inputs.
MaxWords == 2

\* Largest event-array capacity of the event-queue inputs.
MaxEvents == 3

WordVals == {0, 1, 258}

SeqsUpTo(S, n) == UNION {[1..k -> S] : k \in 0..n}

\* bs with its i-th byte changed (i = 0: unchanged).
Mutate(bs, i) == [k \in 1..Len(bs) |-> IF k = i THEN (bs[k] + 1) % 256 ELSE bs[k]]

Padded(bytes) == ACCOUNT_HEAD_PADDING \o bytes \o ACCOUNT_TAIL_PADDING

\* Buffers for remove_dex_account_padding: a head (intact or with one byte
\* changed), whole words plus possibly a stray byte, a tail (intact or
\* with one byte changed); and every prefix of head ++ tail.
PadInputs ==
    {Mutate(ACCOUNT_HEAD_PADDING, i) \o transmute_to_bytes(W) \o extra
        \o Mutate(ACCOUNT_TAIL_PADDING, j) :
        i \in 0..Len(ACCOUNT_HEAD_PADDING), j \in 0..Len(ACCOUNT_TAIL_PADDING),
        W \in SeqsUpTo(WordVals, MaxWords), extra \in {<<>>, <<7>>}}
    \cup {SubSeq(Padded(<<>>), 1, n) : n \in 0..Len(Padded(<<>>))}

\* A market record of `size` words.
MarketWordsOf(flags, own, nonce, evq, size) ==
    [i \in 1..size |->
        CASE i = 1  -> flags
          [] i = 2  -> own
          [] i = 6  -> nonce
          [] i = 15 -> 5
          [] i = 21 -> 6
          [] i = 28 -> 7
          [] i = 32 -> evq
          [] i = 36 -> 8
          [] i = 40 -> 9
          [] OTHER  -> 0]

MarketFlagVals ==
    {Initialized + Market,
     Initialized + Market + Permissioned,
     Initialized + Market + Disabled,
     Initialized + Market + Permissioned + Disabled,
     Initialized + Market + Permissioned + CrankAuthorityRequired,
     Initialized,
     Initialized + Market + OpenOrders,
     Initialized + Market + AccountFlagLimit}

MarketBuffers ==
    {Padded(transmute_to_bytes(MarketWordsOf(f, own, nonce, evq, size))) :
        f \in MarketFlagVals, own \in {1, 2}, nonce \in {0, 1}, evq \in {2, 3},
        size \in {MarketStateWords - 1, MarketStateWords, MarketStateV2Words}}
    \cup {<<>>, Padded(<<>>), Mutate(Padded(<<>>), 1),
          Mutate(Padded(<<>>), Len(Padded(<<>>))), Padded(<<3>>)}

\* An event record: its tag byte and, as client_order_id, its array index.
EventWordsOf(tag, idx) ==
    [j \in 1..EventWords |-> IF j = 1 THEN tag ELSE IF j = EventWords THEN idx ELSE 0]

RECURSIVE EventArray(_, _)
EventArray(tags, idx) ==
    IF tags = <<>> THEN <<>>
    ELSE EventWordsOf(tags[1], idx) \o EventArray(Tail(tags), idx + 1)

\* The interior of an event-queue account: header, events, trailing words.
QueueWordsOf(head, count, tags, extra) ==
    <<17, head, count, 0>> \o EventArray(tags, 0) \o [k \in 1..extra |-> 0]

EventTags == {EventFill, EventOut, 0}

QueueInputs ==
    {QueueWordsOf(h, c, tags, x) :
        h \in 0..(MaxEvents + 1), c \in 0..(MaxEvents + 1),
        tags \in SeqsUpTo(EventTags, MaxEvents), x \in 0..1}
    \cup SeqsUpTo({0}, HeaderWords - 1)

QueueBuffers ==
    {Padded(transmute_to_bytes(QueueWordsOf(h, c, tags, 0))) :
        h \in {0, 1, 3}, c \in {1, 2},
        tags \in {<<EventFill, EventOut>>, <<0, EventFill>>}}
    \cup {<<>>, Padded(<<>>)}

GoodQueueBuffer ==
    Padded(transmute_to_bytes(QueueWordsOf(0, 2, <<EventFill, EventOut>>, 0)))

GoodMarketBuffers ==
    {Padded(transmute_to_bytes(MarketWordsOf(Initialized + Market, 1, 0, 2,
                                             MarketStateWords))),
     Padded(transmute_to_bytes(MarketWordsOf(Initialized + Market + Permissioned,
                                             1, 0, 2, MarketStateV2Words)))}

InitLocals ==
    /\ account_data = <<>>
    /\ words = <<>>
    /\ market_state = None
    /\ market_keys = None
    /\ event_q_data = <<>>
    /\ inner = <<>>
    /\ event_queue = None
    /\ aligned = FALSE
    /\ ret = None
    /\ log = <<>>

\* load_event_queue is about to be called.
Init ==
    /\ pc = "start"
    /\ InitLocals
    /\ \/ /\ market = Key(1)
          /\ derivable \in BOOLEAN
          /\ \E m \in MarketBuffers :
                chain = (Key(1) :> m) @@ (Key(2) :> GoodQueueBuffer)
       \/ /\ market = Key(1)
          /\ derivable = TRUE
          /\ \E m \in GoodMarketBuffers, q \in QueueBuffers :
                chain = (Key(1) :> m) @@ (Key(2) :> q)
       \/ /\ market = Key(3)
          /\ derivable = TRUE
          /\ \E m \in GoodMarketBuffers :
                chain = (Key(1) :> m) @@ (Key(2) :> GoodQueueBuffer)

Spec == Init /\ [][Next]_vars

(***************************************************************************)
(* remove_dex_account_padding alone: one call on each input buffer.        *)
(***************************************************************************)
InitPad ==
    /\ pc = "pad_call"
    /\ account_data \in PadInputs
    /\ chain = <<>>
    /\ market = <<>>
    /\ derivable = TRUE
    /\ words = <<>>
    /\ market_state = None
    /\ market_keys = None
    /\ event_q_data = <<>>
    /\ inner = <<>>
    /\ event_queue = None
    /\ aligned = FALSE
    /\ ret = None
    /\ log = <<>>

PadCall ==
    /\ pc = "pad_call"
    /\ \E a \in BOOLEAN :
         /\ aligned' = a
         /\ ret' = remove_dex_account_padding(account_data, a)
    /\ pc' = "pad_done"
    /\ UNCHANGED <<chain, market, derivable, account_data, words, market_state,
                   market_keys, event_q_data, inner, event_queue, log>>

NextPad == PadCall

SpecPad == InitPad /\ [][NextPad]_vars

(***************************************************************************)
(* parse_event_queue alone: one call on each input word sequence.          *)
(***************************************************************************)
InitEQ ==
    /\ pc = "eq_call"
    /\ inner \in QueueInputs
    /\ chain = <<>>
    /\ market = <<>>
    /\ derivable = TRUE
    /\ account_data = <<>>
    /\ words = <<>>
    /\ market_state = None
    /\ market_keys = None
    /\ event_q_data = <<>>
    /\ event_queue = None
    /\ aligned = FALSE
    /\ ret = None
    /\ log = <<>>

EQCall ==
    /\ pc = "eq_call"
    /\ ret' = parse_event_queue(inner)
    /\ pc' = "eq_done"
    /\ UNCHANGED <<chain, market, derivable, account_data, words, market_state,
                   market_keys, event_q_data, inner, event_queue, aligned, log>>

NextEQ == EQCall

SpecEQ == InitEQ /\ [][NextEQ]_vars

(***************************************************************************)
(* Properties of parse_event_queue (SpecEQ).                               *)
(***************************************************************************)
\* The event array of the input, its capacity and the header's fields.
InEventWords == SubSeq(inner, HeaderWords + 1, Len(inner))

InCapacity == Len(InEventWords) \div EventWords

InHead == inner[2]

InCount == inner[3]

EQReturned == pc = "eq_done" /\ Len(inner) >= HeaderWords

AllTagsKnown == \A i \in 1..InCapacity : IsOk(as_view(EventAt(InEventWords, i)))

\* The array indices (0-based) of the live region, in ring order.
LiveIndex(i) == ((InHead % InCapacity) + i - 1) % InCapacity

LiveLen == Min(InCount, InCapacity)

\* C1: with head < C and count <= C, parse_event_queue returns exactly
\* count events and the i-th one is the record at array index
\* (head + i) mod C, wrapping past the end of the array.
C1_RingOrder ==
    (EQReturned /\ InCapacity >= 1 /\ InHead < InCapacity
        /\ InCount <= InCapacity /\ AllTagsKnown)
    => /\ IsOk(ret)
       /\ Len(ret.val.events) = InCount
       /\ \A i \in 1..InCount : ret.val.events[i].client_order_id = LiveIndex(i)

\* C2: for every head and count (head >= C and count > C included)
\* parse_event_queue does not panic, and it returns exactly min(count, C)
\* events.
C2_NoPanicClamped ==
    (EQReturned /\ InCapacity >= 1)
    => /\ ~IsPanic(ret)
       /\ AllTagsKnown => (IsOk(ret) /\ Len(ret.val.events) = LiveLen)

\* C10: if a record of the live region carries a tag that is neither Fill
\* nor Out, parse_event_queue fails the whole read with UnknownEventTag.
C10_UnknownTagFailsRead ==
    (EQReturned /\ InCapacity >= 1
        /\ \E i \in 1..LiveLen :
              ~IsOk(as_view(EventAt(InEventWords, LiveIndex(i) + 1))))
    => ret = Err("UnknownEventTag")

(***************************************************************************)
(* Properties of remove_dex_account_padding (SpecPad).                     *)
(***************************************************************************)
MinPaddedLen == Len(ACCOUNT_HEAD_PADDING) + Len(ACCOUNT_TAIL_PADDING)

InHeadBytes == SubSeq(account_data, 1, Len(ACCOUNT_HEAD_PADDING))

InTailBytes ==
    SubSeq(account_data, Len(account_data) - Len(ACCOUNT_TAIL_PADDING) + 1,
           Len(account_data))

\* The positions at which two byte sequences of one length differ.
Diff(a, b) == {k \in 1..Len(a) : a[k] # b[k]}

\* C3: a buffer shorter than head padding + tail padding (the empty one
\* included) gets the TooSmall error, not a panic.
C3_TooSmallIsAnError ==
    (pc = "pad_done" /\ Len(account_data) < MinPaddedLen)
    => ret = Err("TooSmall")

\* C5: padding round trip: stripping head ++ bytes(W) ++ tail gives Ok(W)
\* for every word sequence W, the empty one included, on the borrowed and
\* on the owned path.
C5_RoundTrip ==
    pc = "pad_done"
    => \A W \in SeqsUpTo(WordVals, MaxWords) :
          account_data = Padded(transmute_to_bytes(W)) => ret = Ok(W)

\* C6: on a buffer of at least head + tail bytes, a head padding that
\* differs from the constant in some byte gives HeadMismatch; an intact
\* head with a tail that differs in some byte gives TailMismatch; no words
\* are returned in either case.
C6_PaddingRejection ==
    (pc = "pad_done" /\ Len(account_data) >= MinPaddedLen)
    => /\ Diff(InHeadBytes, ACCOUNT_HEAD_PADDING) # {}
            => ret = Err("HeadMismatch")
       /\ (InHeadBytes = ACCOUNT_HEAD_PADDING
            /\ Diff(InTailBytes, ACCOUNT_TAIL_PADDING) # {})
            => ret = Err("TailMismatch")

\* A head with exactly one byte changed, in front of whole words and an
\* intact tail, has been refused with HeadMismatch.
C6_Witness ==
    /\ pc = "pad_done"
    /\ Len(account_data) >= MinPaddedLen + WordBytes
    /\ Cardinality(Diff(InHeadBytes, ACCOUNT_HEAD_PADDING)) = 1
    /\ InTailBytes = ACCOUNT_TAIL_PADDING
    /\ ret = Err("HeadMismatch")

(***************************************************************************)
(* Properties of load_event_queue / get_keys_for_market (Spec).            *)
(***************************************************************************)
Ran(stage) == \E i \in 1..Len(log) : log[i] = stage

LastStage == log[Len(log)]

IsPrefix(s, t) == Len(s) <= Len(t) /\ \A i \in 1..Len(s) : s[i] = t[i]

\* The errors each stage can fail with.
StageErrors(stage) ==
    CASE stage \in {"fetch_market", "fetch_event_q"} -> {"DataSourceError"}
      [] stage \in {"strip_market", "strip_event_q"} ->
            {"TooSmall", "HeadMismatch", "TailMismatch", "MisalignedLength"}
      [] stage = "dispatch" -> {"FlagMismatch", "LayoutSizeMismatch"}
      [] stage = "derive" -> {"SignerDerivationFailed", "SelfReferenceMismatch"}
      [] stage = "read" -> {"UnknownEventTag", "LayoutSizeMismatch"}

\* C4: a decoded market record whose own_address is not the queried market
\* identifier makes get_keys_for_market return SelfReferenceMismatch: no
\* panic, no MarketPubkeys.  (When the signer derivation itself fails, its
\* error is accepted here as well.)
C4_SelfReferenceError ==
    (pc = "done" /\ LastStage = "derive"
        /\ transmute_to_bytes(market_state.state.own_address) # market)
    => /\ ~IsPanic(ret)
       /\ market_keys = None
       /\ derivable => ret = Err("SelfReferenceMismatch")

\* C7: the stages run in the fixed order, a failing stage ends the run,
\* and the operation then returns that stage's error.
C7_StagesAbortWithError ==
    /\ IsPrefix(log, Stages)
    /\ Ran("fetch_event_q")
        => /\ market_keys.event_q = PubkeyOfWords(market_state.state.event_q)
           /\ pc # "done" => get_account_data(market_keys.event_q) = Ok(event_q_data)
    /\ pc = "done"
        => /\ ret.tag \in {"Ok", "Err"}
           /\ IsOk(ret) <=> log = Stages
           /\ IsErr(ret) => ret.err \in StageErrors(LastStage)

\* C8: when every stage succeeds, load_event_queue returns the header and
\* the events the Event Queue Reader produced.
C8_ReturnsDecodedQueue ==
    (pc = "done" /\ IsOk(ret)) => ret.val = event_queue

AcceptedFlags(branch) ==
    IF branch = "v2"
    THEN {Initialized + Market + Permissioned + d + c :
            d \in {0, Disabled}, c \in {0, CrankAuthorityRequired}}
    ELSE {Initialized + Market + d : d \in {0, Disabled}}

\* The branch the pre-checked flags select, and the size it expects.
PreBranch ==
    IF HasBit(account_flags(account_data).val, Permissioned) THEN "v2" ELSE "plain"

BranchWords(branch) == IF branch = "v2" THEN MarketStateV2Words ELSE MarketStateWords

====
